---- MODULE Spec2Model ----
(***************************************************************************)
(* Booking conflict resolution and availability engine of the pet          *)
(* appointment scheduler: conflictResolution.ts, BookingConflictService,   *)
(* DataService and the AppContext operations that drive them.              *)
(*                                                                         *)
(* Time is counted in minutes of local wall-clock time from Monday 00:00   *)
(* of a reference week (the code works in milliseconds; every comparison   *)
(* it makes is between whole-minute values scaled by 60000).               *)
(***************************************************************************)
EXTENDS Integers, Sequences, FiniteSets, TLC

\* ------------------------------------------------------------------------
\* Bounds of the model
\* ------------------------------------------------------------------------
MaxExisting == 2
MaxFailures == 1
MaxOps == 4
MaxAttempts == 3

\* ------------------------------------------------------------------------
\* Program constants
\* ------------------------------------------------------------------------
MinutesPerDay == 24 * 60
SuggestionStep == 30
MinAppointmentDuration == 30
DefaultMaxRetryAttempts == 3
DefaultMaxAlternativeSuggestions == 5

\* ------------------------------------------------------------------------
\* Wall-clock helpers: Date.toLocaleDateString / toTimeString / setHours
\* ------------------------------------------------------------------------
WeekdayNames ==
  <<"monday", "tuesday", "wednesday", "thursday", "friday", "saturday", "sunday">>

\* toLocaleDateString('en-US', {weekday: 'long'}).toLowerCase()
DayOfWeek(t) == WeekdayNames[((t \div MinutesPerDay) % 7) + 1]

\* minutes since local midnight of an absolute time
TimeOfDay(t) == t % MinutesPerDay

\* toTimeString().substring(0, 5): the zero-padded "HH:MM" text of a time,
\* kept as its four digit characters (the colon is at a fixed place).
ToTimeString(t) ==
  LET h == TimeOfDay(t) \div 60
      m == TimeOfDay(t) % 60
  IN <<h \div 10, h % 10, m \div 10, m % 10>>

\* "HH:MM" text of a number of minutes since midnight (schedule windows)
HHMM(mins) == <<(mins \div 60) \div 10, (mins \div 60) % 10, (mins % 60) \div 10, (mins % 60) % 10>>

\* JavaScript string comparison a <= b: lexicographic on the characters
StrLeq(a, b) ==
  \/ a = b
  \/ \E i \in 1..4 : /\ a[i] < b[i]
                     /\ \A j \in 1..(i - 1) : a[j] = b[j]

\* slot.startTime.split(':').map(Number) followed by setHours(h, m, 0, 0)
ParseTime(s) == (s[1] * 10 + s[2]) * 60 + (s[3] * 10 + s[4])

\* date.setHours(0, 0, 0, 0)
DateOnly(t) == t - TimeOfDay(t)

\* doctor.schedule[dayOfWeek], undefined read as "no windows"
DaySlots(schedule, day) == IF day \in DOMAIN schedule THEN schedule[day] ELSE <<>>

\* ------------------------------------------------------------------------
\* conflictResolution.ts
\* ------------------------------------------------------------------------
findConflictingAppointments_StartOnly(targetAppointment, existingAppointments) ==
  LET Conflicts(existing) ==
        /\ existing.status # "cancelled"
        /\ existing.doctorId = targetAppointment.doctorId
        /\ targetAppointment.dateTime = existing.dateTime
  IN SelectSeq(existingAppointments, Conflicts)

findConflictingAppointments(targetAppointment, existingAppointments) ==
  LET Conflicts(existing) ==
        /\ existing.status # "cancelled"
        /\ existing.doctorId = targetAppointment.doctorId
        /\ targetAppointment.dateTime < existing.dateTime + existing.duration
        /\ targetAppointment.dateTime + targetAppointment.duration > existing.dateTime
  IN SelectSeq(existingAppointments, Conflicts)

isWithinDoctorSchedule(doctor, appointmentDateTime, duration) ==
  LET timeSlots == DaySlots(doctor.schedule, DayOfWeek(appointmentDateTime))
      appointmentTime == ToTimeString(appointmentDateTime)
      appointmentEndTime == ToTimeString(appointmentDateTime + duration)
  IN /\ Len(timeSlots) > 0
     /\ \E i \in 1..Len(timeSlots) :
          /\ StrLeq(timeSlots[i].startTime, appointmentTime)
          /\ StrLeq(appointmentEndTime, timeSlots[i].endTime)

suggestAlternativeSlots(doctor, preferredDate, duration, existingAppointments, maxSuggestions) ==
  LET timeSlots == DaySlots(doctor.schedule, DayOfWeek(preferredDate))
      dateOnly == DateOnly(preferredDate)
      potentialAppointment(t) ==
        [doctorId |-> doctor.id, petOwnerId |-> "temp", dateTime |-> t,
         duration |-> duration, status |-> "scheduled"]
      RECURSIVE Scan(_, _, _)
      \* i: window being walked, currentTime: candidate instant, acc: suggestions
      Scan(i, currentTime, acc) ==
        IF i > Len(timeSlots) THEN acc
        ELSE IF currentTime + duration <= dateOnly + ParseTime(timeSlots[i].endTime)
        THEN LET free == findConflictingAppointments(
                           potentialAppointment(currentTime), existingAppointments) = <<>>
                 acc2 == IF free THEN Append(acc, currentTime) ELSE acc
             IN IF free /\ Len(acc2) >= maxSuggestions
                THEN acc2
                ELSE Scan(i, currentTime + SuggestionStep, acc2)
        ELSE IF i + 1 <= Len(timeSlots)
        THEN Scan(i + 1, dateOnly + ParseTime(timeSlots[i + 1].startTime), acc)
        ELSE acc
  IN IF Len(timeSlots) = 0
     THEN <<>>
     ELSE Scan(1, dateOnly + ParseTime(timeSlots[1].startTime), <<>>)

validateScheduleUpdate(doctorId, newSchedule, existingAppointments) ==
  LET IsDoctorScheduled(a) == a.doctorId = doctorId /\ a.status = "scheduled"
      doctorAppointments == SelectSeq(existingAppointments, IsDoctorScheduled)
      Outside(a) ==
        LET daySlots == DaySlots(newSchedule, DayOfWeek(a.dateTime))
            appointmentTime == ToTimeString(a.dateTime)
            appointmentEndTime == ToTimeString(a.dateTime + a.duration)
        IN ~ \E i \in 1..Len(daySlots) :
               /\ StrLeq(daySlots[i].startTime, appointmentTime)
               /\ StrLeq(appointmentEndTime, daySlots[i].endTime)
      conflictingAppointments == SelectSeq(doctorAppointments, Outside)
  IN [isValid |-> Len(conflictingAppointments) = 0,
      conflictingAppointments |-> conflictingAppointments]

checkSlotAvailabilityOn_StartOnly(appointments, doctorId, dateTime, duration) ==
  LET OfDoctor(a) == a.doctorId = doctorId
      doctorAppointments == SelectSeq(appointments, OfDoctor)
  IN ~ \E i \in 1..Len(doctorAppointments) :
         /\ doctorAppointments[i].status # "cancelled"
         /\ dateTime = doctorAppointments[i].dateTime

\* DataService.checkSlotAvailability evaluated on a list of stored appointments
checkSlotAvailabilityOn(appointments, doctorId, dateTime, duration) ==
  LET OfDoctor(a) == a.doctorId = doctorId
      doctorAppointments == SelectSeq(appointments, OfDoctor)
  IN ~ \E i \in 1..Len(doctorAppointments) :
         /\ doctorAppointments[i].status # "cancelled"
         /\ dateTime < doctorAppointments[i].dateTime + doctorAppointments[i].duration
         /\ dateTime + duration > doctorAppointments[i].dateTime

\* hasTimeConflict of conflictResolution.ts (the service has its own copy)
conflictResolution_hasTimeConflict(appointment1, appointment2) ==
  IF appointment1.doctorId # appointment2.doctorId
  THEN FALSE
  ELSE LET start1 == appointment1.dateTime
           end1 == start1 + appointment1.duration
           start2 == appointment2.dateTime
           end2 == start2 + appointment2.duration
       IN start1 < end2 /\ end1 > start2

timeRangesOverlap_Inclusive(start1, end1, start2, end2) == start1 <= end2 /\ start2 <= end1

\* DateTimeUtils.timeRangesOverlap
timeRangesOverlap(start1, end1, start2, end2) == start1 < end2 /\ start2 < end1

\* ------------------------------------------------------------------------
\* State
\* ------------------------------------------------------------------------
VARIABLES
  appointments,     \* DataService: the stored APPOINTMENTS list
  doctors,          \* DataService: the stored DOCTORS list
  stateAppointments, \* AppState.appointments
  stateDoctors,     \* AppState.doctors
  stateError,       \* AppState.error
  pendingBookings,  \* BookingConflictService.pendingBookings, in insertion order
  optimisticStates, \* BookingConflictService.optimisticStates, in insertion order
  calls,            \* frames of the bookAppointmentWithConflictResolution calls
  clock,            \* Date.now() as seen by the booking timestamps
  now,              \* wall clock in minutes, as seen by AppointmentModel.validate
  failures,         \* persistence failures raised so far
  ops,              \* AppContext operations started so far
  pure,             \* the last application of a pure function: inputs and result
  persisted,        \* AsyncStorage: the text stored under the key, or Null
  cache,            \* OptimizedStorageService.cache: the entry of the key, or Null
  batchQueue,       \* OptimizedStorageService.batchQueue
  batchTimeout,     \* OptimizedStorageService.batchTimeout is set
  nativeQueue,      \* AsyncStorage operations issued and not yet performed
  storageCalls      \* setData/removeData calls made so far, and the last of them

bookingVars ==
  <<appointments, doctors, stateAppointments, stateDoctors, stateError,
    pendingBookings, optimisticStates, calls, clock, now, failures, ops>>

storageVars == <<persisted, cache, batchQueue, batchTimeout, nativeQueue, storageCalls>>

vars == <<bookingVars, pure, storageVars>>

Null == "null"

\* OptimizedStorageService after construction, over an empty AsyncStorage
InitStorage ==
  /\ persisted = Null
  /\ cache = Null
  /\ batchQueue = <<>>
  /\ batchTimeout = FALSE
  /\ nativeQueue = <<>>
  /\ storageCalls = [count |-> 0, last |-> [type |-> "none"]]

\* ------------------------------------------------------------------------
\* Stored data and requests of the stateful model
\* ------------------------------------------------------------------------
DoctorIds == {"d1", "d2"}
Statuses == {"scheduled", "completed", "cancelled"}
UserIds == {"u1", "u2"}
\* two callers of the booking service may be in flight at once
CallIds == {1, 2}

Window(startMin, endMin) == [startTime |-> HHMM(startMin), endTime |-> HHMM(endMin)]

\* d1 works Monday 09:00-10:00, d2 works Tuesday 09:00-12:00 only
InitialDoctors ==
  << [id |-> "d1", schedule |-> ("monday" :> <<Window(540, 600)>>)],
     [id |-> "d2", schedule |-> ("tuesday" :> <<Window(540, 720)>>)] >>

\* schedules a provider may submit through updateDoctor
EditedSchedules ==
  { ("monday" :> <<Window(540, 720)>>),
    ("monday" :> <<Window(570, 720)>>),
    ("tuesday" :> <<Window(540, 720)>>) }

\* requested slots: Monday 09:00 and 09:30, 30 or 60 minutes
BookStarts == {540, 570}
BookDurations == {30, 60}
BookingPayloads ==
  [doctorId : DoctorIds, petOwnerId : {"u1"}, dateTime : BookStarts,
   duration : BookDurations, status : {"scheduled"}]

\* the concurrent attempts all target provider d1
ConcurrentPayloads == { p \in BookingPayloads : p.doctorId = "d1" }

\* times an existing reservation may be moved to: Monday 09:00, 09:30, 10:00
RescheduleTargets == {540, 570, 600}

\* the wall clock is either before every requested slot or at Monday 09:15
LateNow == 540 + 15

NoError == [type |-> "none", message |-> "none"]
NoResult == [returned |-> FALSE]

\* A call frame holds the locals of bookAppointmentWithConflictResolution and
\* attemptBookingWithRetry; firstSnapshot is the length of existingAppointments
\* as read by the first pass of the loop (-1 before that read).

IdleCall ==
  [pc |-> "idle", appointmentData |-> NoResult, userId |-> "none", timestamp |-> 0,
   origin |-> "none", enableOptimisticUpdates |-> FALSE, maxRetryAttempts |-> 0,
   maxAlternativeSuggestions |-> 0, attempt |-> 0, lastError |-> NoError,
   optimisticState |-> FALSE, firstSnapshot |-> -1, result |-> NoResult]

InitBooking ==
  /\ appointments = <<>>
  /\ doctors = InitialDoctors
  /\ stateAppointments = <<>>
  /\ stateDoctors = <<>>
  /\ stateError = NoError
  /\ pendingBookings = <<>>
  /\ optimisticStates = <<>>
  /\ calls = [id \in CallIds |-> IdleCall]
  /\ clock = 1
  /\ now = 0
  /\ failures = 0
  /\ ops = 0
  /\ InitStorage

\* ------------------------------------------------------------------------
\* BookingConflictService (navigation/types.ts)
\* ------------------------------------------------------------------------
ConflictError(message) == [type |-> "BOOKING_CONFLICT", message |-> message]
BookingError(message) == [type |-> "STORAGE_ERROR", message |-> message]

hasTimeConflict(appointment1, appointment2) ==
  /\ appointment1.doctorId = appointment2.doctorId
  /\ appointment1.dateTime < appointment2.dateTime + appointment2.duration
  /\ appointment1.dateTime + appointment1.duration > appointment2.dateTime

\* the pending attempts, in Map order, that are not skipped and overlap
detectSimultaneousBookings(pending, appointmentData, excludeUserId) ==
  LET Competes(entry) ==
        /\ entry.userId # excludeUserId
        /\ hasTimeConflict(appointmentData, entry.appointmentData)
  IN SelectSeq(pending, Competes)

resolveBookingConflict_FirstPassed(attempts) ==
  IF Len(attempts) <= 1
  THEN [winner |-> attempts[1], conflicts |-> <<>>, resolution |-> "no_conflict"]
  ELSE [winner |-> attempts[1], conflicts |-> Tail(attempts),
        resolution |-> "timestamp_priority"]

\* [...attempts].sort by timestamp (stable), winner = first, conflicts = rest
resolveBookingConflict(attempts) ==
  LET RECURSIVE Insert(_, _)
      Insert(sorted, a) ==
        IF sorted = <<>> THEN <<a>>
        ELSE IF a.timestamp < Head(sorted).timestamp
        THEN <<a>> \o sorted
        ELSE <<Head(sorted)>> \o Insert(Tail(sorted), a)
      RECURSIVE Sort(_, _)
      Sort(done, rest) ==
        IF rest = <<>> THEN done ELSE Sort(Insert(done, Head(rest)), Tail(rest))
      sortedAttempts == Sort(<<>>, attempts)
  IN IF Len(attempts) <= 1
     THEN [winner |-> attempts[1], conflicts |-> <<>>, resolution |-> "no_conflict"]
     ELSE [winner |-> sortedAttempts[1], conflicts |-> Tail(sortedAttempts),
           resolution |-> "timestamp_priority"]

resolveSimultaneousBookings(currentAttempt, conflictingAttempts) ==
  resolveBookingConflict(<<currentAttempt>> \o conflictingAttempts)

\* AppointmentModel.validate on a payload with well-formed ids, pet and reason
AppointmentValid(a) == ~(a.dateTime < now) /\ ~(a.duration < MinAppointmentDuration)

RemoveBooking(entries, id) ==
  LET Other(entry) == entry.bookingId # id IN SelectSeq(entries, Other)

BookingAttemptOf(id) ==
  [bookingId |-> id, appointmentData |-> calls[id].appointmentData,
   timestamp |-> calls[id].timestamp, userId |-> calls[id].userId]

LoopExit_KeepsPending(id, seen, err) ==
  /\ calls' = [calls EXCEPT ![id].pc = "alternatives", ![id].lastError = err,
                            ![id].firstSnapshot = seen]
  /\ optimisticStates' = IF calls[id].optimisticState
                         THEN RemoveBooking(optimisticStates, id)
                         ELSE optimisticStates
  /\ pendingBookings' = pendingBookings

\* attemptBookingWithRetry returns success=false: rollback, deregister and
\* go on to generateAlternatives (lines 150-161)
LoopExit(id, seen, err) ==
  /\ calls' = [calls EXCEPT ![id].pc = "alternatives", ![id].lastError = err,
                            ![id].firstSnapshot = seen]
  /\ optimisticStates' = IF calls[id].optimisticState
                         THEN RemoveBooking(optimisticStates, id)
                         ELSE optimisticStates
  /\ pendingBookings' = RemoveBooking(pendingBookings, id)

RetryOrExit_OneMore(id, seen, err) ==
  IF calls[id].attempt <= calls[id].maxRetryAttempts
  THEN /\ calls' = [calls EXCEPT ![id].pc = "delay", ![id].lastError = err,
                                 ![id].firstSnapshot = seen]
       /\ UNCHANGED <<optimisticStates, pendingBookings>>
  ELSE LoopExit(id, seen, err)

\* "if (attempt < maxRetries) { await delay; continue } else break", and the
\* catch block of the loop, which ends the same way
RetryOrExit(id, seen, err) ==
  IF calls[id].attempt < calls[id].maxRetryAttempts
  THEN /\ calls' = [calls EXCEPT ![id].pc = "delay", ![id].lastError = err,
                                 ![id].firstSnapshot = seen]
       /\ UNCHANGED <<optimisticStates, pendingBookings>>
  ELSE LoopExit(id, seen, err)

\* bookAppointmentWithConflictResolution up to its first await (lines 112-130)
StartBooking(id, appointmentData, userId, origin) ==
  /\ calls[id].pc = "idle"
  /\ ops < MaxOps
  /\ ops' = ops + 1
  /\ \E advance \in {0, 1} : clock' = clock + advance
  /\ pendingBookings' = Append(pendingBookings,
        [bookingId |-> id, appointmentData |-> appointmentData,
         timestamp |-> clock, userId |-> userId])
  /\ calls' = [calls EXCEPT ![id] =
        [IdleCall EXCEPT
           !.pc = IF origin = "bookAppointment" THEN "optimistic" ELSE "check",
           !.appointmentData = appointmentData,
           !.userId = userId,
           !.timestamp = clock,
           !.origin = origin,
           !.enableOptimisticUpdates = (origin = "bookAppointment"),
           !.maxRetryAttempts = IF origin = "bookAppointment"
                                THEN DefaultMaxRetryAttempts ELSE 1,
           !.maxAlternativeSuggestions = DefaultMaxAlternativeSuggestions]]
  /\ UNCHANGED <<appointments, doctors, stateAppointments, stateDoctors, stateError,
                 optimisticStates, now, failures, pure, storageVars>>

\* performOptimisticUpdate: snapshot of the stored appointments
PerformOptimisticUpdate(id) ==
  /\ calls[id].pc = "optimistic"
  /\ optimisticStates' = Append(optimisticStates,
        [bookingId |-> id, originalState |-> appointments])
  /\ calls' = [calls EXCEPT ![id].pc = "check", ![id].optimisticState = TRUE]
  /\ UNCHANGED <<appointments, doctors, stateAppointments, stateDoctors, stateError,
                 pendingBookings, clock, now, failures, ops, pure, storageVars>>

\* the wrapper in AppContext that receives a failed result
DispatchFailure(id, result) ==
  IF calls[id].origin = "bookAppointment"
  THEN stateError' = [type |-> result.error.type, message |-> result.error.message]
  ELSE UNCHANGED stateError

\* getAllAppointments throws inside performOptimisticUpdate: outer catch
PerformOptimisticUpdateFails(id) ==
  /\ calls[id].pc = "optimistic"
  /\ failures < MaxFailures
  /\ failures' = failures + 1
  /\ pendingBookings' = RemoveBooking(pendingBookings, id)
  /\ optimisticStates' = RemoveBooking(optimisticStates, id)
  /\ LET result == [returned |-> TRUE, success |-> FALSE,
                    error |-> BookingError("Unexpected error during booking"),
                    hasAlternatives |-> FALSE, alternatives |-> <<>>]
     IN /\ calls' = [calls EXCEPT ![id].pc = "done", ![id].result = result]
        /\ DispatchFailure(id, result)
  /\ UNCHANGED <<appointments, doctors, stateAppointments, stateDoctors,
                 clock, now, ops, pure, storageVars>>

ConflictCheck_RetriesCommitted(id) ==
  /\ calls[id].pc = "check"
  /\ LET c == calls[id]
         conflicts == findConflictingAppointments(c.appointmentData, appointments)
         simultaneousAttempts ==
           detectSimultaneousBookings(pendingBookings, c.appointmentData, c.userId)
         resolution == resolveSimultaneousBookings(BookingAttemptOf(id), simultaneousAttempts)
         seen == IF c.attempt = 0 THEN Len(appointments) ELSE c.firstSnapshot
     IN IF Len(conflicts) > 0
        THEN IF Len(simultaneousAttempts) > 0
             THEN IF resolution.winner.userId # c.userId
                  THEN RetryOrExit(id, seen, ConflictError("Another user booked this slot first"))
                  ELSE /\ calls' = [calls EXCEPT ![id].pc = "avail", ![id].firstSnapshot = seen]
                       /\ UNCHANGED <<optimisticStates, pendingBookings>>
             ELSE RetryOrExit(id, seen, ConflictError("Time slot is no longer available"))
        ELSE /\ calls' = [calls EXCEPT ![id].pc = "avail", ![id].firstSnapshot = seen]
             /\ UNCHANGED <<optimisticStates, pendingBookings>>
  /\ UNCHANGED <<appointments, doctors, stateAppointments, stateDoctors, stateError,
                 clock, now, failures, ops, pure, storageVars>>

\* one pass of the loop up to the availability double-check (lines 283-314)
ConflictCheck(id) ==
  /\ calls[id].pc = "check"
  /\ LET c == calls[id]
         conflicts == findConflictingAppointments(c.appointmentData, appointments)
         simultaneousAttempts ==
           detectSimultaneousBookings(pendingBookings, c.appointmentData, c.userId)
         resolution == resolveSimultaneousBookings(BookingAttemptOf(id), simultaneousAttempts)
         seen == IF c.attempt = 0 THEN Len(appointments) ELSE c.firstSnapshot
     IN IF Len(conflicts) > 0
        THEN IF Len(simultaneousAttempts) > 0
             THEN IF resolution.winner.userId # c.userId
                  THEN RetryOrExit(id, seen, ConflictError("Another user booked this slot first"))
                  ELSE /\ calls' = [calls EXCEPT ![id].pc = "avail", ![id].firstSnapshot = seen]
                       /\ UNCHANGED <<optimisticStates, pendingBookings>>
             ELSE LoopExit(id, seen, ConflictError("Time slot is no longer available"))
        ELSE /\ calls' = [calls EXCEPT ![id].pc = "avail", ![id].firstSnapshot = seen]
             /\ UNCHANGED <<optimisticStates, pendingBookings>>
  /\ UNCHANGED <<appointments, doctors, stateAppointments, stateDoctors, stateError,
                 clock, now, failures, ops, pure, storageVars>>

\* checkSlotAvailability, then the synchronous head of saveAppointment
\* (AppointmentModel.create and validate) (lines 316-338, DataService 417-428)
AvailabilityCheck(id) ==
  /\ calls[id].pc = "avail"
  /\ LET c == calls[id]
         isAvailable == checkSlotAvailabilityOn(appointments, c.appointmentData.doctorId,
                          c.appointmentData.dateTime, c.appointmentData.duration)
     IN IF ~isAvailable
        THEN RetryOrExit(id, c.firstSnapshot,
                         ConflictError("Slot became unavailable during booking process"))
        ELSE IF ~AppointmentValid(c.appointmentData)
        THEN RetryOrExit(id, c.firstSnapshot, BookingError("Failed to save appointment"))
        ELSE /\ calls' = [calls EXCEPT ![id].pc = "save"]
             /\ UNCHANGED <<optimisticStates, pendingBookings>>
  /\ UNCHANGED <<appointments, doctors, stateAppointments, stateDoctors, stateError,
                 clock, now, failures, ops, pure, storageVars>>

\* a persistence read or write throws inside the loop: its catch block
LoopStepFails(id) ==
  /\ calls[id].pc \in {"check", "avail", "save"}
  /\ failures < MaxFailures
  /\ failures' = failures + 1
  /\ RetryOrExit(id, calls[id].firstSnapshot, BookingError("Failed to save appointment"))
  /\ UNCHANGED <<appointments, doctors, stateAppointments, stateDoctors, stateError,
                 clock, now, ops, pure, storageVars>>

NewAppointment(appointmentData) ==
  [id |-> Len(appointments) + 1, doctorId |-> appointmentData.doctorId,
   petOwnerId |-> appointmentData.petOwnerId, dateTime |-> appointmentData.dateTime,
   duration |-> appointmentData.duration, status |-> "scheduled"]

\* saveAppointment: read the list, push, write it back (DataService 430-436)
SaveAppointment(id) ==
  /\ calls[id].pc = "save"
  /\ appointments' = Append(appointments, NewAppointment(calls[id].appointmentData))
  /\ calls' = [calls EXCEPT ![id].pc = "saved",
                            ![id].result = [returned |-> FALSE,
                                            appointment |-> NewAppointment(calls[id].appointmentData)]]
  /\ UNCHANGED <<doctors, stateAppointments, stateDoctors, stateError, pendingBookings,
                 optimisticStates, clock, now, failures, ops, pure, storageVars>>

\* the call returns success (lines 139-149) to its caller in AppContext
ReturnSuccess(id) ==
  /\ calls[id].pc = "saved"
  /\ optimisticStates' = IF calls[id].optimisticState
                         THEN RemoveBooking(optimisticStates, id)
                         ELSE optimisticStates
  /\ pendingBookings' = RemoveBooking(pendingBookings, id)
  /\ calls' = [calls EXCEPT ![id].pc = "done",
                            ![id].result = [returned |-> TRUE, success |-> TRUE,
                                            appointment |-> calls[id].result.appointment,
                                            hasAlternatives |-> FALSE, alternatives |-> <<>>]]
  /\ stateAppointments' = IF calls[id].origin = "bookAppointment"
                          THEN Append(stateAppointments, calls[id].result.appointment)
                          ELSE stateAppointments
  /\ UNCHANGED <<appointments, doctors, stateDoctors, stateError,
                 clock, now, failures, ops, pure, storageVars>>

\* the backoff delay elapses and the loop goes round
RetryAfterDelay(id) ==
  /\ calls[id].pc = "delay"
  /\ calls' = [calls EXCEPT ![id].pc = "check", ![id].attempt = calls[id].attempt + 1]
  /\ UNCHANGED <<appointments, doctors, stateAppointments, stateDoctors, stateError,
                 pendingBookings, optimisticStates, clock, now, failures, ops, pure, storageVars>>

FindDoctor(list, doctorId) ==
  LET IsIt(d) == d.id = doctorId IN SelectSeq(list, IsIt)

\* BookingConflictService.generateAlternatives (lines 363-388), reads succeeding
generateAlternatives(appointmentData, maxSuggestions) ==
  LET found == FindDoctor(doctors, appointmentData.doctorId)
  IN IF found = <<>> THEN <<>>
     ELSE suggestAlternativeSlots(found[1], appointmentData.dateTime,
            appointmentData.duration, appointments, maxSuggestions)

\* the failed return (lines 150-167)
GenerateAlternatives(id) ==
  /\ calls[id].pc = "alternatives"
  /\ LET c == calls[id]
         alternatives == generateAlternatives(c.appointmentData, c.maxAlternativeSuggestions)
         result == [returned |-> TRUE, success |-> FALSE, error |-> c.lastError,
                    hasAlternatives |-> TRUE, alternatives |-> alternatives]
     IN /\ calls' = [calls EXCEPT ![id].pc = "done", ![id].result = result]
        /\ DispatchFailure(id, result)
  /\ UNCHANGED <<appointments, doctors, stateAppointments, stateDoctors,
                 pendingBookings, optimisticStates, clock, now, failures, ops, pure, storageVars>>

\* a read inside generateAlternatives throws: it is caught and [] returned
GenerateAlternativesFails(id) ==
  /\ calls[id].pc = "alternatives"
  /\ failures < MaxFailures
  /\ failures' = failures + 1
  /\ LET result == [returned |-> TRUE, success |-> FALSE, error |-> calls[id].lastError,
                    hasAlternatives |-> TRUE, alternatives |-> <<>>]
     IN /\ calls' = [calls EXCEPT ![id].pc = "done", ![id].result = result]
        /\ DispatchFailure(id, result)
  /\ UNCHANGED <<appointments, doctors, stateAppointments, stateDoctors,
                 pendingBookings, optimisticStates, clock, now, ops, pure, storageVars>>

\* time passes
Tick ==
  /\ now < LateNow
  /\ now' = LateNow
  /\ UNCHANGED <<appointments, doctors, stateAppointments, stateDoctors, stateError,
                 pendingBookings, optimisticStates, calls, clock, failures, ops, pure, storageVars>>

BookingStep(id) ==
  \/ PerformOptimisticUpdate(id)
  \/ PerformOptimisticUpdateFails(id)
  \/ ConflictCheck(id)
  \/ AvailabilityCheck(id)
  \/ LoopStepFails(id)
  \/ SaveAppointment(id)
  \/ ReturnSuccess(id)
  \/ RetryAfterDelay(id)
  \/ GenerateAlternatives(id)
  \/ GenerateAlternativesFails(id)

\* ------------------------------------------------------------------------
\* Concurrent booking attempts: calls interleave at every await
\* ------------------------------------------------------------------------
InitConc == InitBooking /\ pure = [op |-> "none"]

NextConc ==
  \/ \E id \in CallIds, data \in ConcurrentPayloads, userId \in UserIds :
       StartBooking(id, data, userId, "bookAppointment")
  \/ \E id \in CallIds, data \in ConcurrentPayloads, userId \in UserIds :
       StartBooking(id, data, userId, "getAlternativeSlotsWithConflictCheck")
  \/ \E id \in CallIds : BookingStep(id)
  \/ Tick

SpecConc == InitConc /\ [][NextConc]_vars

\* ------------------------------------------------------------------------
\* AppContext operations, each run to completion before the next starts
\* ------------------------------------------------------------------------
NoCallActive == \A id \in CallIds : calls[id].pc = "idle"

FindAppointment(list, appointmentId) ==
  LET IsIt(a) == a.id = appointmentId IN SelectSeq(list, IsIt)

\* reducer UPDATE_APPOINTMENT / UPDATE_DOCTOR: replace every entry of that id
ReplaceById(list, item) ==
  [i \in 1..Len(list) |-> IF list[i].id = item.id THEN item ELSE list[i]]

\* DataService.updateAppointment / updateDoctor: replace the first entry of that id
ReplaceFirstById(list, item) ==
  LET index == CHOOSE i \in 1..Len(list) :
                 list[i].id = item.id /\ \A j \in 1..(i - 1) : list[j].id # item.id
  IN [list EXCEPT ![index] = item]

\* DataService.updateAppointment accepts the record: it validates and is stored
UpdateAppointmentAccepted(appointment) ==
  /\ AppointmentValid(appointment)
  /\ FindAppointment(appointments, appointment.id) # <<>>

OperationFrame ==
  /\ NoCallActive
  /\ ops < MaxOps
  /\ ops' = ops + 1
  /\ UNCHANGED <<pendingBookings, optimisticStates, calls, clock, now, failures, pure, storageVars>>

loadAllData ==
  /\ OperationFrame
  /\ stateAppointments' = appointments
  /\ stateDoctors' = doctors
  /\ UNCHANGED <<appointments, doctors, stateError>>

cancelAppointment(appointmentId) ==
  /\ OperationFrame
  /\ LET found == FindAppointment(stateAppointments, appointmentId)
         updatedAppointment == [found[1] EXCEPT !.status = "cancelled"]
     IN IF found = <<>>
        THEN /\ stateError' = BookingError("Failed to cancel appointment")
             /\ UNCHANGED <<appointments, stateAppointments>>
        ELSE IF ~UpdateAppointmentAccepted(updatedAppointment)
        THEN /\ stateError' = BookingError("Failed to update appointment")
             /\ UNCHANGED <<appointments, stateAppointments>>
        ELSE /\ appointments' = ReplaceFirstById(appointments, updatedAppointment)
             /\ stateAppointments' = ReplaceById(stateAppointments, updatedAppointment)
             /\ UNCHANGED stateError
  /\ UNCHANGED <<doctors, stateDoctors>>

rescheduleAppointment_NoStoreCheck(appointmentId, newDateTime) ==
  /\ OperationFrame
  /\ LET found == FindAppointment(stateAppointments, appointmentId)
         tempAppointmentData == [found[1] EXCEPT !.dateTime = newDateTime]
         NotIt(a) == a.id # appointmentId
         otherAppointments == SelectSeq(stateAppointments, NotIt)
     IN IF found = <<>>
        THEN /\ stateError' = BookingError("Failed to reschedule appointment")
             /\ UNCHANGED <<appointments, stateAppointments>>
        ELSE IF Len(findConflictingAppointments(tempAppointmentData, otherAppointments)) > 0
        THEN /\ stateError' = ConflictError("The selected time slot is not available")
             /\ UNCHANGED <<appointments, stateAppointments>>
        ELSE IF ~UpdateAppointmentAccepted(tempAppointmentData)
        THEN /\ stateError' = BookingError("Failed to update appointment")
             /\ UNCHANGED <<appointments, stateAppointments>>
        ELSE /\ appointments' = ReplaceFirstById(appointments, tempAppointmentData)
             /\ stateAppointments' = ReplaceById(stateAppointments, tempAppointmentData)
             /\ UNCHANGED stateError
  /\ UNCHANGED <<doctors, stateDoctors>>

rescheduleAppointment(appointmentId, newDateTime) ==
  /\ OperationFrame
  /\ LET found == FindAppointment(stateAppointments, appointmentId)
         tempAppointmentData == [found[1] EXCEPT !.dateTime = newDateTime]
         NotIt(a) == a.id # appointmentId
         otherAppointments == SelectSeq(stateAppointments, NotIt)
     IN IF found = <<>>
        THEN /\ stateError' = BookingError("Failed to reschedule appointment")
             /\ UNCHANGED <<appointments, stateAppointments>>
        ELSE IF Len(findConflictingAppointments(tempAppointmentData, otherAppointments)) > 0
        THEN /\ stateError' = ConflictError("The selected time slot is not available")
             /\ UNCHANGED <<appointments, stateAppointments>>
        ELSE IF ~checkSlotAvailabilityOn(appointments, found[1].doctorId,
                                         newDateTime, found[1].duration)
        THEN /\ stateError' =
                  ConflictError("The selected time slot was just booked by another user")
             /\ UNCHANGED <<appointments, stateAppointments>>
        ELSE IF ~UpdateAppointmentAccepted(tempAppointmentData)
        THEN /\ stateError' = BookingError("Failed to update appointment")
             /\ UNCHANGED <<appointments, stateAppointments>>
        ELSE /\ appointments' = ReplaceFirstById(appointments, tempAppointmentData)
             /\ stateAppointments' = ReplaceById(stateAppointments, tempAppointmentData)
             /\ UNCHANGED stateError
  /\ UNCHANGED <<doctors, stateDoctors>>

updateDoctor_NoValidation(doctor) ==
  /\ OperationFrame
  /\ IF FindDoctor(doctors, doctor.id) = <<>>
     THEN /\ stateError' = BookingError("Failed to update doctor")
          /\ UNCHANGED <<doctors, stateDoctors>>
     ELSE /\ doctors' = ReplaceFirstById(doctors, doctor)
          /\ stateDoctors' = ReplaceById(stateDoctors, doctor)
          /\ UNCHANGED stateError
  /\ UNCHANGED <<appointments, stateAppointments>>

updateDoctor(doctor) ==
  /\ OperationFrame
  /\ LET scheduleValidation ==
           validateScheduleUpdate(doctor.id, doctor.schedule, stateAppointments)
     IN IF ~scheduleValidation.isValid
        THEN /\ stateError' = ConflictError("Schedule update conflicts with existing appointment(s)")
             /\ UNCHANGED <<doctors, stateDoctors>>
        ELSE IF FindDoctor(doctors, doctor.id) = <<>>
        THEN /\ stateError' = BookingError("Failed to update doctor")
             /\ UNCHANGED <<doctors, stateDoctors>>
        ELSE /\ doctors' = ReplaceFirstById(doctors, doctor)
             /\ stateDoctors' = ReplaceById(stateDoctors, doctor)
             /\ UNCHANGED stateError
  /\ UNCHANGED <<appointments, stateAppointments>>

\* bookAppointmentWithConflictResolution run from call to return with no other
\* activity in between: the registry holds the caller's own entry, and every
\* pass of the retry loop reads the same store
BookingOutcome(appointmentData, userId, maxRetries) ==
  LET own == [bookingId |-> 0, appointmentData |-> appointmentData,
              timestamp |-> clock, userId |-> userId]
      pending == Append(pendingBookings, own)
      conflicts == findConflictingAppointments(appointmentData, appointments)
      simultaneousAttempts == detectSimultaneousBookings(pending, appointmentData, userId)
      resolution == resolveSimultaneousBookings(own, simultaneousAttempts)
      isAvailable == checkSlotAvailabilityOn(appointments, appointmentData.doctorId,
                       appointmentData.dateTime, appointmentData.duration)
      RECURSIVE Loop(_, _)
      Loop(attempt, lastError) ==
        IF attempt > maxRetries THEN [success |-> FALSE, error |-> lastError]
        ELSE IF Len(conflicts) > 0 /\ Len(simultaneousAttempts) = 0
        THEN [success |-> FALSE, error |-> ConflictError("Time slot is no longer available")]
        ELSE IF Len(conflicts) > 0 /\ resolution.winner.userId # userId
        THEN Loop(attempt + 1, ConflictError("Another user booked this slot first"))
        ELSE IF ~isAvailable
        THEN Loop(attempt + 1, ConflictError("Slot became unavailable during booking process"))
        ELSE IF ~AppointmentValid(appointmentData)
        THEN Loop(attempt + 1, BookingError("Failed to save appointment"))
        ELSE [success |-> TRUE, appointment |-> NewAppointment(appointmentData)]
  IN Loop(0, NoError)

\* AppContext.bookAppointment (lines 381-427)
bookAppointment(appointmentData, userId) ==
  /\ OperationFrame
  /\ LET result == BookingOutcome(appointmentData, userId, DefaultMaxRetryAttempts)
     IN IF result.success
        THEN /\ appointments' = Append(appointments, result.appointment)
             /\ stateAppointments' = Append(stateAppointments, result.appointment)
             /\ UNCHANGED stateError
        ELSE /\ stateError' = [type |-> result.error.type, message |-> result.error.message]
             /\ UNCHANGED <<appointments, stateAppointments>>
  /\ UNCHANGED <<doctors, stateDoctors>>

\* AppContext.getAlternativeSlotsWithConflictCheck (lines 586-608)
getAlternativeSlotsWithConflictCheck(appointmentData, userId) ==
  /\ OperationFrame
  /\ LET result == BookingOutcome(appointmentData, userId, 1)
     IN IF result.success
        THEN appointments' = Append(appointments, result.appointment)
        ELSE UNCHANGED appointments
  /\ UNCHANGED <<doctors, stateAppointments, stateDoctors, stateError>>

DoctorEdits == [id : {"d1"}, schedule : EditedSchedules]

InitSeq == InitBooking /\ pure = [op |-> "none"]

NextSeq ==
  \/ \E data \in BookingPayloads, userId \in UserIds : bookAppointment(data, userId)
  \/ \E data \in BookingPayloads, userId \in UserIds :
       getAlternativeSlotsWithConflictCheck(data, userId)
  \/ loadAllData
  \/ \E appointmentId \in 1..Len(appointments) : cancelAppointment(appointmentId)
  \/ \E appointmentId \in 1..Len(appointments), newDateTime \in RescheduleTargets :
       rescheduleAppointment(appointmentId, newDateTime)
  \/ \E doctor \in DoctorEdits : updateDoctor(doctor)
  \/ Tick

SpecSeq == InitSeq /\ [][NextSeq]_vars

\* ------------------------------------------------------------------------
\* DoctorAvailabilityService
\* ------------------------------------------------------------------------
SlotDuration == 30

\* the days array of getDayName, indexed by Date.getDay() (0 = Sunday)
DayNames == <<"Sunday", "Monday", "Tuesday", "Wednesday", "Thursday", "Friday", "Saturday">>

getDayName(date) == DayNames[(((date \div MinutesPerDay) + 1) % 7) + 1]

\* String.toLowerCase on a day name
ToLowerCase(name) ==
  CASE name = "Sunday" -> "sunday"
    [] name = "Monday" -> "monday"
    [] name = "Tuesday" -> "tuesday"
    [] name = "Wednesday" -> "wednesday"
    [] name = "Thursday" -> "thursday"
    [] name = "Friday" -> "friday"
    [] name = "Saturday" -> "saturday"
    [] OTHER -> name

\* instants startTime, startTime + 30, ... strictly before endTime, on that date
generateSlotsFromTimeSlot(date, timeSlot) ==
  LET startTime == ParseTime(timeSlot.startTime)
      endTime == ParseTime(timeSlot.endTime)
      count == IF startTime < endTime
               THEN (endTime - startTime + SlotDuration - 1) \div SlotDuration
               ELSE 0
  IN [k \in 1..count |-> DateOnly(date) + startTime + (k - 1) * SlotDuration]

isSlotAvailable_StartOnly(slotDate, activeAppointments) ==
  ~ \E i \in 1..Len(activeAppointments) : slotDate = activeAppointments[i].dateTime

isSlotAvailable(slotDate, activeAppointments) ==
  ~ \E i \in 1..Len(activeAppointments) :
      /\ slotDate < activeAppointments[i].dateTime + activeAppointments[i].duration
      /\ slotDate + SlotDuration > activeAppointments[i].dateTime

\* Array.prototype.sort((a, b) => a - b) on a list of instants
SortAscending(list) ==
  LET RECURSIVE Insert(_, _)
      Insert(sorted, x) ==
        IF sorted = <<>> THEN <<x>>
        ELSE IF x < Head(sorted) THEN <<x>> \o sorted
        ELSE <<Head(sorted)>> \o Insert(Tail(sorted), x)
      RECURSIVE Sort(_, _)
      Sort(done, rest) ==
        IF rest = <<>> THEN done ELSE Sort(Insert(done, Head(rest)), Tail(rest))
  IN Sort(<<>>, list)

\* the pushes of nested loops, in the order they are made
FlattenSeq(lists) ==
  LET RECURSIVE Flat(_)
      Flat(i) == IF i > Len(lists) THEN <<>> ELSE lists[i] \o Flat(i + 1)
  IN Flat(1)

IsPastSlot_HalfHourEarly(slot, currentTime) == slot - SlotDuration <= currentTime

\* "if (slot <= new Date()) continue": an instant at or before now is skipped
IsPastSlot(slot, currentTime) == slot <= currentTime

\* getAvailableSlots with both store reads succeeding; currentTime is the
\* value of new Date() during the call
getAvailableSlots(doctorList, storedAppointments, currentTime, doctorId, daysAhead) ==
  LET found == FindDoctor(doctorList, doctorId)
      OfDoctor(a) == a.doctorId = doctorId
      NotCancelled(a) == a.status # "cancelled"
      activeAppointments == SelectSeq(SelectSeq(storedAppointments, OfDoctor), NotCancelled)
      today == DateOnly(currentTime)
      Keep(slot) == ~IsPastSlot(slot, currentTime) /\ isSlotAvailable(slot, activeAppointments)
      SlotsOfDay(dayOffset) ==
        LET currentDate == today + dayOffset * MinutesPerDay
            daySchedule == DaySlots(found[1].schedule, ToLowerCase(getDayName(currentDate)))
        IN FlattenSeq([i \in 1..Len(daySchedule) |->
                         SelectSeq(generateSlotsFromTimeSlot(currentDate, daySchedule[i]), Keep)])
  IN IF found = <<>> THEN <<>>
     ELSE SortAscending(FlattenSeq([k \in 1..daysAhead |-> SlotsOfDay(k - 1)]))

\* ------------------------------------------------------------------------
\* Input domains of the pure-function applications
\* ------------------------------------------------------------------------
\* Monday 09:00-12:00; 09:00-12:00 + 12:00-14:00 (contiguous); the same two
\* windows stored afternoon first; 22:00-23:30;
\* no Monday at all; Monday present but empty
InputSchedules ==
  { ("monday" :> <<Window(540, 720)>>),
    ("monday" :> <<Window(540, 720), Window(720, 840)>>),
    ("monday" :> <<Window(720, 840), Window(540, 720)>>),
    ("monday" :> <<Window(1320, 1410)>>),
    ("tuesday" :> <<Window(540, 720)>>),
    ("monday" :> <<>>) }

\* Monday 09:00, 11:30, 11:45, 12:00, 23:00, 23:30
InputStarts == {540, 690, 705, 720, 1380, 1410}
InputDurations == {1, 15, 30, 60, 1440}

\* stored reservations used as inputs: Monday 09:00 / 09:30
ExistingStarts == {540, 570}
ExistingDurations == {30, 60}

InputAppointments ==
  [doctorId : DoctorIds, petOwnerId : {"u1"}, dateTime : ExistingStarts,
   duration : ExistingDurations, status : Statuses]

WithId(a, n) ==
  [id |-> n, doctorId |-> a.doctorId, petOwnerId |-> a.petOwnerId,
   dateTime |-> a.dateTime, duration |-> a.duration, status |-> a.status]

\* lists of at most MaxExisting stored reservations, ids by position
InputLists ==
  UNION { { [i \in 1..n |-> WithId(f[i], i)] : f \in [1..n -> InputAppointments] }
          : n \in 0..MaxExisting }

\* ------------------------------------------------------------------------
\* Applications of the pure functions
\* ------------------------------------------------------------------------
CallIsWithinDoctorSchedule ==
  /\ pure.op = "none"
  /\ UNCHANGED <<bookingVars, storageVars>>
  /\ \E sched \in InputSchedules, t \in InputStarts, d \in InputDurations :
    pure' = [op |-> "isWithinDoctorSchedule",
             doctor |-> [id |-> "d1", schedule |-> sched],
             dateTime |-> t, duration |-> d,
             result |-> isWithinDoctorSchedule([id |-> "d1", schedule |-> sched], t, d)]

CallFindConflictingAppointments ==
  /\ pure.op = "none"
  /\ UNCHANGED <<bookingVars, storageVars>>
  /\ \E st \in {"scheduled", "cancelled"}, t \in ExistingStarts,
     d \in ExistingDurations, existing \in InputLists :
    LET target == [doctorId |-> "d1", petOwnerId |-> "u2", dateTime |-> t,
                   duration |-> d, status |-> st]
    IN pure' = [op |-> "findConflictingAppointments",
                target |-> target, existing |-> existing,
                result |-> findConflictingAppointments(target, existing)]

CallSuggestAlternativeSlots ==
  /\ pure.op = "none"
  /\ UNCHANGED <<bookingVars, storageVars>>
  /\ \E sched \in InputSchedules, t \in {540, 570}, d \in {30, 60},
     existing \in InputLists, maxSuggestions \in {0, 1, 5} :
    LET doctor == [id |-> "d1", schedule |-> sched]
    IN pure' = [op |-> "suggestAlternativeSlots",
                doctor |-> doctor, preferredDate |-> t, duration |-> d,
                existing |-> existing, maxSuggestions |-> maxSuggestions,
                result |-> suggestAlternativeSlots(doctor, t, d, existing, maxSuggestions)]

CallValidateScheduleUpdate ==
  /\ pure.op = "none"
  /\ UNCHANGED <<bookingVars, storageVars>>
  /\ \E sched \in InputSchedules, existing \in InputLists :
    pure' = [op |-> "validateScheduleUpdate",
             doctorId |-> "d1", newSchedule |-> sched, existing |-> existing,
             result |-> validateScheduleUpdate("d1", sched, existing)]

\* competing attempts: one to MaxAttempts of them, any timestamps and callers
AttemptInputs ==
  [userId : UserIds, timestamp : 1..MaxAttempts,
   appointmentData : {[doctorId |-> "d1", petOwnerId |-> "u1", dateTime |-> 540,
                       duration |-> 30, status |-> "scheduled"]}]

AttemptLists == UNION { [1..n -> AttemptInputs] : n \in 1..MaxAttempts }

CallResolveBookingConflict ==
  /\ pure.op = "none"
  /\ UNCHANGED <<bookingVars, storageVars>>
  /\ \E attempts \in AttemptLists :
    pure' = [op |-> "resolveBookingConflict", attempts |-> attempts,
             result |-> resolveBookingConflict(attempts)]

\* intervals compared pairwise: Monday 09:00, 09:30, 10:00 for 30 or 60 minutes
OverlapStarts == {540, 570, 600}
OverlapAppointments ==
  [doctorId : DoctorIds, petOwnerId : {"u1"}, dateTime : OverlapStarts,
   duration : ExistingDurations, status : {"scheduled"}]

OverlapResults(a, b) ==
  [timeRangesOverlap |->
     timeRangesOverlap(a.dateTime, a.dateTime + a.duration, b.dateTime, b.dateTime + b.duration),
   hasTimeConflict |-> conflictResolution_hasTimeConflict(WithId(a, 1), WithId(b, 2)),
   serviceHasTimeConflict |-> hasTimeConflict(a, b),
   findConflictingAppointments |-> findConflictingAppointments(a, <<WithId(b, 2)>>) # <<>>]

CallOverlapTests ==
  /\ pure.op = "none"
  /\ UNCHANGED <<bookingVars, storageVars>>
  /\ \E a \in OverlapAppointments, b \in OverlapAppointments :
    pure' = [op |-> "overlap", a |-> a, b |-> b,
             forward |-> OverlapResults(a, b), backward |-> OverlapResults(b, a)]

\* the arbitration each of two competing attempts runs when it finds the other
\* in the registry (attemptBookingWithRetry lines 291-296)
CallArbitrateBoth ==
  /\ pure.op = "none"
  /\ UNCHANGED <<bookingVars, storageVars>>
  /\ \E a \in AttemptInputs, b \in AttemptInputs :
       /\ a.userId # b.userId
       /\ pure' = [op |-> "arbitrateBoth", a |-> a, b |-> b,
                   forA |-> resolveSimultaneousBookings(a, <<b>>),
                   forB |-> resolveSimultaneousBookings(b, <<a>>)]

\* the number of passes of "for (m = start; m < end; m += interval)"
SlotCount(startMinutes, endMinutes, intervalMinutes) ==
  IF startMinutes < endMinutes
  THEN (endMinutes - startMinutes + intervalMinutes - 1) \div intervalMinutes
  ELSE 0

\* DateTimeUtils.generateTimeSlots: "HH:MM" texts from start while current < end
generateTimeSlots(startTime, endTime, intervalMinutes) ==
  LET start == ParseTime(startTime)
      end == ParseTime(endTime)
  IN [k \in 1..SlotCount(start, end, intervalMinutes) |->
        ToTimeString(start + (k - 1) * intervalMinutes)]

\* ScheduleService.generateIndividualSlots: the same walk on minutes
generateIndividualSlots(startTime, endTime, intervalMinutes) ==
  LET startMinutes == ParseTime(startTime)
      endMinutes == ParseTime(endTime)
  IN [k \in 1..SlotCount(startMinutes, endMinutes, intervalMinutes) |->
        HHMM(startMinutes + (k - 1) * intervalMinutes)]

\* windows given to the slot generators: 09:00-10:00, 09:00-09:45,
\* 09:00-09:30, 10:00-10:15, 09:00-11:00
SlotWindows ==
  { Window(540, 600), Window(540, 585), Window(540, 570), Window(600, 615),
    Window(540, 660) }

\* the three slot generators applied to one window on Monday of the week
CallGenerateSlots ==
  /\ pure.op = "none"
  /\ UNCHANGED <<bookingVars, storageVars>>
  /\ \E window \in SlotWindows :
    pure' = [op |-> "generateSlots", window |-> window,
             fromTimeSlot |-> generateSlotsFromTimeSlot(0, window),
             timeSlots |-> generateTimeSlots(window.startTime, window.endTime, SlotDuration),
             individualSlots |->
               generateIndividualSlots(window.startTime, window.endTime, SlotDuration)]

\* ------------------------------------------------------------------------
\* Schedule validation and construction (ScheduleService, ValidationUtils,
\* the schedule-management screen)
\* ------------------------------------------------------------------------
MinSlotMinutes == 30

\* constants.ts DAYS_OF_WEEK, the values of the DayOfWeek type
DAYS_OF_WEEK ==
  <<"Monday", "Tuesday", "Wednesday", "Thursday", "Friday", "Saturday", "Sunday">>

doTimeSlotsOverlap(slot1, slot2) ==
  /\ ParseTime(slot1.startTime) < ParseTime(slot2.endTime)
  /\ ParseTime(slot2.startTime) < ParseTime(slot1.endTime)

\* ScheduleService.validateSchedule on windows whose texts are well formed:
\* the messages are kept by kind, day and slot number
validateSchedule(schedule) ==
  LET hasAnyDay == \E day \in DOMAIN schedule : Len(schedule[day]) > 0
      Start(day, i) == ParseTime(schedule[day][i].startTime)
      End(day, i) == ParseTime(schedule[day][i].endTime)
      errors ==
        (IF hasAnyDay THEN {} ELSE {<<"At least one day must be selected with time slots">>})
        \cup UNION { { <<"End time must be after start time", day, i>> :
                         i \in { k \in 1..Len(schedule[day]) : Start(day, k) >= End(day, k) } }
                     : day \in DOMAIN schedule }
        \cup UNION { { <<"Overlapping time slots found", day>> :
                         i \in { k \in 1..Len(schedule[day]) :
                                   \E j \in (k + 1)..Len(schedule[day]) :
                                     doTimeSlotsOverlap(schedule[day][k], schedule[day][j]) } }
                     : day \in DOMAIN schedule }
      warnings ==
        UNION { { <<"Time slot is less than 30 minutes", day, i>> :
                    i \in { k \in 1..Len(schedule[day]) :
                              End(day, k) - Start(day, k) < MinSlotMinutes } }
                : day \in DOMAIN schedule }
  IN [isValid |-> errors = {}, errors |-> errors, warnings |-> warnings]

\* ValidationUtils.validateDoctorSchedule on the same kind of input
validateDoctorSchedule(schedule) ==
  LET validDays == { WeekdayNames[n] : n \in 1..7 }
      Known(day) == ToLowerCase(day) \in validDays
      Start(day, i) == ParseTime(schedule[day][i].startTime)
      End(day, i) == ParseTime(schedule[day][i].endTime)
      errors ==
        { <<"Invalid day", day>> : day \in { d \in DOMAIN schedule : ~Known(d) } }
        \cup UNION { { <<"End time must be after start time", day, i>> :
                         i \in { k \in 1..Len(schedule[day]) : Start(day, k) >= End(day, k) } }
                     : day \in { d \in DOMAIN schedule : Known(d) } }
        \cup UNION { { <<"Time slot must be at least 30 minutes", day, i>> :
                         i \in { k \in 1..Len(schedule[day]) :
                                   End(day, k) - Start(day, k) < MinSlotMinutes } }
                     : day \in { d \in DOMAIN schedule : Known(d) } }
        \cup UNION { { <<"Time slots overlap", day, i>> :
                         i \in { k \in 1..Len(schedule[day]) :
                                   \E j \in (k + 1)..Len(schedule[day]) :
                                     timeRangesOverlap(Start(day, k), End(day, k),
                                                       Start(day, j), End(day, j)) } }
                     : day \in { d \in DOMAIN schedule : Known(d) } }
  IN [isValid |-> errors = {}, errors |-> errors]

\* the schedule validation of validateForm, which decides whether handleSave
\* goes on to store the schedule
ScheduleSaveAccepts(schedule) == validateSchedule(schedule).isValid

\* ScheduleService.createDefaultSchedule: Monday to Friday 09:00-17:00
createDefaultSchedule ==
  [day \in { DAYS_OF_WEEK[n] : n \in 1..5 } |-> <<Window(540, 1020)>>]

\* the schedule handleSave builds from the selected days and their windows
BuildSchedule(selectedDays, daySchedules) ==
  [day \in selectedDays |->
     IF day \in DOMAIN daySchedules THEN daySchedules[day] ELSE <<>>]

\* day lists given to validation: one window of 60, 30 or 20 minutes, a
\* window that ends before it starts, two overlapping, two apart, none
ValidationDayLists ==
  { <<Window(540, 600)>>, <<Window(540, 570)>>, <<Window(540, 560)>>,
    <<Window(600, 540)>>, <<Window(540, 600), Window(570, 630)>>,
    <<Window(540, 600), Window(600, 660)>>, <<>> }

CallValidateSchedule ==
  /\ pure.op = "none"
  /\ UNCHANGED <<bookingVars, storageVars>>
  /\ \E day \in {"monday", "Monday"}, slots \in ValidationDayLists :
    LET schedule == (day :> slots)
    IN pure' = [op |-> "validateSchedule", schedule |-> schedule,
                result |-> validateSchedule(schedule),
                utils |-> validateDoctorSchedule(schedule),
                saveAccepts |-> ScheduleSaveAccepts(schedule)]

\* schedules the system builds itself: the default one, and the one the
\* schedule-management save builds for the days ticked on the screen
ConstructedSchedules ==
  {createDefaultSchedule}
  \cup { BuildSchedule(selectedDays, [day \in selectedDays |-> <<Window(540, 1020)>>]) :
           selectedDays \in { {"Monday"}, {"Monday", "Tuesday"} } }

\* the four lowercase-weekday lookups made for Monday 09:00 on a provider
\* carrying a constructed schedule
CallScheduleLookups ==
  /\ pure.op = "none"
  /\ UNCHANGED <<bookingVars, storageVars>>
  /\ \E schedule \in ConstructedSchedules, duration \in BookDurations :
    LET doctor == [id |-> "d1", schedule |-> schedule]
        booked == <<[id |-> 1, doctorId |-> "d1", petOwnerId |-> "u1", dateTime |-> 540,
                     duration |-> duration, status |-> "scheduled"]>>
    IN pure' = [op |-> "scheduleLookups", schedule |-> schedule, duration |-> duration,
                isWithinDoctorSchedule |-> isWithinDoctorSchedule(doctor, 540, duration),
                suggestAlternativeSlots |->
                  suggestAlternativeSlots(doctor, 540, duration, <<>>,
                                          DefaultMaxAlternativeSuggestions),
                validateScheduleUpdate |-> validateScheduleUpdate("d1", schedule, booked),
                getAvailableSlots |-> getAvailableSlots(<<doctor>>, <<>>, 0, "d1", 1)]

InitPure == InitBooking /\ pure = [op |-> "none"]

NextPure ==
  \/ CallIsWithinDoctorSchedule
  \/ CallFindConflictingAppointments
  \/ CallSuggestAlternativeSlots
  \/ CallValidateScheduleUpdate
  \/ CallResolveBookingConflict
  \/ CallOverlapTests
  \/ CallArbitrateBoth
  \/ CallGenerateSlots
  \/ CallValidateSchedule
  \/ CallScheduleLookups

SpecPure == InitPure /\ [][NextPure]_vars

\* ------------------------------------------------------------------------
\* DoctorAvailabilityService: calls and their specification
\* ------------------------------------------------------------------------
\* what a getAvailableSlots call saw and returned, and the call before it
AvailabilityCall(doctorId, daysAhead, failed, result) ==
  [op |-> "getAvailableSlots", doctorId |-> doctorId, daysAhead |-> daysAhead,
   at |-> now, doctors |-> doctors, existing |-> appointments,
   failed |-> failed, result |-> result,
   previous |-> IF pure.op = "getAvailableSlots"
                THEN [pure EXCEPT !.previous = [op |-> "none"]]
                ELSE [op |-> "none"]]

\* DoctorAvailabilityService.getAvailableSlots (lines 22-65)
GetAvailableSlots(doctorId, daysAhead) ==
  /\ pure' = AvailabilityCall(doctorId, daysAhead, FALSE,
               getAvailableSlots(doctors, appointments, now, doctorId, daysAhead))
  /\ UNCHANGED <<bookingVars, storageVars>>

\* a store read throws inside getAvailableSlots: it is caught and [] returned
GetAvailableSlotsFails(doctorId, daysAhead) ==
  /\ failures < MaxFailures
  /\ failures' = failures + 1
  /\ pure' = AvailabilityCall(doctorId, daysAhead, TRUE, <<>>)
  /\ UNCHANGED <<appointments, doctors, stateAppointments, stateDoctors, stateError,
                 pendingBookings, optimisticStates, calls, clock, now, ops, storageVars>>

\* stored reservations of provider d1 the expansion starts from
\* Monday 09:00 for 60 minutes or Monday 09:30 for 30, scheduled or cancelled
AvailAppointments ==
  { a \in [doctorId : {"d1"}, petOwnerId : {"u1"}, dateTime : ExistingStarts,
           duration : ExistingDurations, status : {"scheduled", "cancelled"}] :
      a.dateTime + a.duration = 600 }

AvailStores ==
  UNION { { [i \in 1..n |-> WithId(f[i], i)] : f \in [1..n -> AvailAppointments] }
          : n \in 0..MaxExisting }

\* Monday 09:00-10:00 and Tuesday 09:00-09:30; Monday 10:00-11:00 stored
\* before 09:00-10:00; Monday 09:00-09:45; Monday 09:30-10:00
AvailSchedules ==
  { ("monday" :> <<Window(540, 600)>>) @@ ("tuesday" :> <<Window(540, 570)>>),
    ("monday" :> <<Window(600, 660), Window(540, 600)>>),
    ("monday" :> <<Window(540, 585)>>),
    ("monday" :> <<Window(570, 600)>>) }

\* the queries made: provider d1 over one or two days, an unknown provider
AvailQueries ==
  { [doctorId |-> "d1", daysAhead |-> 1], [doctorId |-> "d1", daysAhead |-> 2],
    [doctorId |-> "d9", daysAhead |-> 1] }

\* the store and AppState as loadAllData leaves them, with room for one more
\* AppContext operation
InitAvail ==
  /\ appointments \in AvailStores
  /\ doctors \in { <<[id |-> "d1", schedule |-> schedule]>> : schedule \in AvailSchedules }
  /\ stateAppointments = appointments
  /\ stateDoctors = doctors
  /\ stateError = NoError
  /\ pendingBookings = <<>>
  /\ optimisticStates = <<>>
  /\ calls = [id \in CallIds |-> IdleCall]
  /\ clock = 1
  /\ now = 0
  /\ failures = 0
  /\ ops = MaxOps - 1
  /\ pure = [op |-> "none"]
  /\ InitStorage

NextAvail ==
  \/ \E q \in AvailQueries : GetAvailableSlots(q.doctorId, q.daysAhead)
  \/ \E q \in AvailQueries : GetAvailableSlotsFails(q.doctorId, q.daysAhead)
  \/ \E appointmentId \in 1..Len(appointments) : cancelAppointment(appointmentId)
  \/ \E doctor \in DoctorEdits : updateDoctor(doctor)
  \/ Tick

SpecAvail == InitAvail /\ [][NextAvail]_vars

\* ------------------------------------------------------------------------
\* OptimizedStorageService: writes of one key, batched and immediate
\* ------------------------------------------------------------------------
MaxStorageCalls == 3

StoredValues == {"v1", "v2"}

\* JSON.stringify(data, dateReplacer): the text written for a value
Stringify(data) == <<"json", data>>

StorageFrame == UNCHANGED <<bookingVars, pure>>

\* OptimizedStorageService.addToBatch (lines 297-308): queue the operation and
\* schedule the flush if none is scheduled
addToBatch(type, value) ==
  /\ batchQueue' = Append(batchQueue, [type |-> type, value |-> value])
  /\ batchTimeout' = TRUE

\* OptimizedStorageService.setData (lines 59-76), up to its first await
setData(data, immediate) ==
  /\ storageCalls.count < MaxStorageCalls
  /\ storageCalls' = [count |-> storageCalls.count + 1,
                      last |-> [type |-> "set", value |-> data]]
  /\ cache' = data
  /\ IF immediate
     THEN /\ nativeQueue' = Append(nativeQueue,
                                   [type |-> "setItem", values |-> <<Stringify(data)>>])
          /\ UNCHANGED <<batchQueue, batchTimeout>>
     ELSE /\ addToBatch("set", data)
          /\ UNCHANGED nativeQueue
  /\ UNCHANGED persisted
  /\ StorageFrame

\* OptimizedStorageService.removeData (lines 78-92), up to its first await
removeData(immediate) ==
  /\ storageCalls.count < MaxStorageCalls
  /\ storageCalls' = [count |-> storageCalls.count + 1, last |-> [type |-> "remove"]]
  /\ cache' = Null
  /\ IF immediate
     THEN /\ nativeQueue' = Append(nativeQueue, [type |-> "removeItem", values |-> <<>>])
          /\ UNCHANGED <<batchQueue, batchTimeout>>
     ELSE /\ addToBatch("remove", Null)
          /\ UNCHANGED nativeQueue
  /\ UNCHANGED persisted
  /\ StorageFrame

\* OptimizedStorageService.flushBatch (lines 180-223), up to its await, run by
\* the timer addToBatch set or by DataService.flushPendingOperations: the
\* queue is emptied, the sets are issued as one multiSet, then one removeItem
\* per queued remove
flushBatch ==
  /\ batchQueue # <<>>
  /\ LET operations == batchQueue
         setOperations ==
           [k \in 1..Len(SelectSeq(operations, LAMBDA op : op.type = "set")) |->
              Stringify(SelectSeq(operations, LAMBDA op : op.type = "set")[k].value)]
         removeKeys == SelectSeq(operations, LAMBDA op : op.type = "remove")
     IN nativeQueue' =
          nativeQueue
          \o (IF Len(setOperations) > 0
              THEN <<[type |-> "multiSet", values |-> setOperations]>>
              ELSE <<>>)
          \o [k \in 1..Len(removeKeys) |-> [type |-> "removeItem", values |-> <<>>]]
  /\ batchQueue' = <<>>
  /\ batchTimeout' = FALSE
  /\ UNCHANGED <<persisted, cache, storageCalls>>
  /\ StorageFrame

\* AsyncStorage performs the oldest operation issued to it: operations are
\* taken in the order they were issued, a multiSet writes its pairs in order
AsyncStoragePerforms ==
  /\ nativeQueue # <<>>
  /\ LET op == Head(nativeQueue)
     IN persisted' = IF op.type = "removeItem" THEN Null
                     ELSE op.values[Len(op.values)]
  /\ nativeQueue' = Tail(nativeQueue)
  /\ UNCHANGED <<cache, batchQueue, batchTimeout, storageCalls>>
  /\ StorageFrame

InitStore == InitBooking /\ pure = [op |-> "none"]

NextStore ==
  \/ \E data \in StoredValues, immediate \in BOOLEAN : setData(data, immediate)
  \/ \E immediate \in BOOLEAN : removeData(immediate)
  \/ flushBatch
  \/ AsyncStoragePerforms

SpecStore == InitStore /\ [][NextStore]_vars

\* ------------------------------------------------------------------------
\* Properties of the pure functions
\* ------------------------------------------------------------------------
StrictOverlap(s1, d1, s2, d2) == s1 < s2 + d2 /\ s2 < s1 + d1

\* a single window of the weekday holds the whole request [t, t + d]
WithinSingleWindow(schedule, t, d) ==
  LET ws == DaySlots(schedule, DayOfWeek(t))
  IN \E i \in 1..Len(ws) :
       /\ ParseTime(ws[i].startTime) <= TimeOfDay(t)
       /\ TimeOfDay(t) + d <= ParseTime(ws[i].endTime)

\* C6: every timestamp suggestAlternativeSlots returns passes
\* checkSlotAvailability for the same provider, duration and reservations.
C6_SuggestionsAreAvailable ==
  pure.op = "suggestAlternativeSlots" =>
    \A i \in 1..Len(pure.result) :
      checkSlotAvailabilityOn(pure.existing, pure.doctor.id, pure.result[i], pure.duration)

\* a suggestion was returned although an earlier instant of the day was
\* skipped because a stored reservation of the provider occupies it
C6_Witness ==
  /\ pure.op = "suggestAlternativeSlots"
  /\ Len(pure.result) > 0
  /\ pure.result[1] > 540
  /\ ~ checkSlotAvailabilityOn(pure.existing, pure.doctor.id, 540, pure.duration)

\* C7 (as claimed): findConflictingAppointments returns exactly the existing
\* reservations of the candidate's provider that are not cancelled and
\* strictly overlap it, and nothing at all for a cancelled candidate.
C7_ExactConflictsUnlessCandidateCancelled ==
  pure.op = "findConflictingAppointments" =>
    LET Expected(e) ==
          /\ pure.target.status # "cancelled"
          /\ e.doctorId = pure.target.doctorId
          /\ e.status # "cancelled"
          /\ StrictOverlap(pure.target.dateTime, pure.target.duration,
                           e.dateTime, e.duration)
    IN pure.result = SelectSeq(pure.existing, Expected)

\* C8 (as claimed): isWithinDoctorSchedule is true iff one window of the
\* weekday satisfies window.start <= start and start + duration <= window.end.
C8_WithinIffSingleWindow ==
  pure.op = "isWithinDoctorSchedule" =>
    (pure.result <=> WithinSingleWindow(pure.doctor.schedule, pure.dateTime, pure.duration))

\* C9 (as claimed): validateScheduleUpdate lists every non-cancelled
\* reservation of the provider lying within no window of the new schedule,
\* and isValid is false exactly when that list is non-empty.
C9_ListsEveryNonCancelledOutside ==
  pure.op = "validateScheduleUpdate" =>
    LET Expected(e) ==
          /\ e.doctorId = pure.doctorId
          /\ e.status # "cancelled"
          /\ ~ WithinSingleWindow(pure.newSchedule, e.dateTime, e.duration)
    IN /\ pure.result.conflictingAppointments = SelectSeq(pure.existing, Expected)
       /\ pure.result.isValid = (Len(pure.result.conflictingAppointments) = 0)

\* ------------------------------------------------------------------------
\* Properties of the booking service and the AppContext operations
\* ------------------------------------------------------------------------
Returned(id) == calls[id].result.returned
Succeeded(id) == Returned(id) /\ calls[id].result.success
Failed(id) == Returned(id) /\ ~calls[id].result.success

\* C1 (as claimed): of the booking calls that ran concurrently against one
\* provider with overlapping intervals, at most one returns success.
C1_AtMostOneOverlappingSuccess ==
  \A i, j \in CallIds :
    (i # j /\ Succeeded(i) /\ Succeeded(j)) =>
      ~hasTimeConflict(calls[i].appointmentData, calls[j].appointmentData)

\* C2: with operations run one at a time, no two non-cancelled reservations
\* of the same provider overlap in the store.
C2_NoOverlapInStore ==
  \A i, j \in 1..Len(appointments) :
    (i < j /\ appointments[i].status # "cancelled" /\ appointments[j].status # "cancelled"
       /\ appointments[i].doctorId = appointments[j].doctorId) =>
      ~StrictOverlap(appointments[i].dateTime, appointments[i].duration,
                     appointments[j].dateTime, appointments[j].duration)

\* a slot was cancelled and booked again, next to a touching reservation,
\* and an overlapping request was turned down
C2_Witness ==
  /\ \E i, j, k \in 1..Len(appointments) :
       /\ appointments[i].status = "cancelled"
       /\ appointments[j].status = "scheduled"
       /\ appointments[k].status = "scheduled"
       /\ j # k
       /\ appointments[i].doctorId = appointments[j].doctorId
       /\ appointments[k].doctorId = appointments[j].doctorId
       /\ StrictOverlap(appointments[i].dateTime, appointments[i].duration,
                        appointments[j].dateTime, appointments[j].duration)
       /\ appointments[j].dateTime + appointments[j].duration = appointments[k].dateTime
  /\ ops = MaxOps

\* C3 (as claimed): two requesters, identical slot, timestamps T1 < T2, both
\* first conflict checks made before either persisted (both read the empty
\* store): the T1 call is booked, the T2 call fails and gets alternatives.
C3_EarlierTimestampWins ==
  \A i, j \in CallIds :
    (/\ Returned(i) /\ Returned(j)
     /\ calls[i].userId # calls[j].userId
     /\ calls[i].appointmentData = calls[j].appointmentData
     /\ calls[i].timestamp < calls[j].timestamp
     /\ calls[i].firstSnapshot = 0 /\ calls[j].firstSnapshot = 0) =>
      /\ calls[i].result.success
      /\ ~calls[j].result.success
      /\ calls[j].result.hasAlternatives

\* C4 (as claimed): no call returns success for a request that does not lie
\* inside one window of the provider's schedule for that weekday.
C4_SuccessOnlyWithinSchedule ==
  \A id \in CallIds :
    Succeeded(id) =>
      LET found == FindDoctor(doctors, calls[id].appointmentData.doctorId)
      IN /\ found # <<>>
         /\ WithinSingleWindow(found[1].schedule, calls[id].appointmentData.dateTime,
                               calls[id].appointmentData.duration)

\* C5 (as claimed): every failed result carries an error message and an
\* alternatives list, on every failure path.
C5_FailureCarriesMessageAndAlternatives ==
  \A id \in CallIds :
    Failed(id) =>
      /\ calls[id].result.error.message # "none"
      /\ calls[id].result.hasAlternatives

\* C10: an updateDoctor whose schedule validation reports a conflicting
\* reservation leaves the stored and the in-memory provider lists unchanged.
C10_RejectedEditChangesNothing ==
  [][\A doctor \in DoctorEdits :
       (/\ updateDoctor(doctor)
        /\ ~validateScheduleUpdate(doctor.id, doctor.schedule, stateAppointments).isValid)
       => (doctors' = doctors /\ stateDoctors' = stateDoctors)]_vars

\* an edit was turned down while the provider is loaded in memory
C10_Witness ==
  /\ stateError = ConflictError("Schedule update conflicts with existing appointment(s)")
  /\ stateDoctors = doctors
  /\ Len(stateDoctors) > 0

\* ------------------------------------------------------------------------
\* Properties of the availability expansion
\* ------------------------------------------------------------------------
\* C11: every timestamp getAvailableSlots returns, taken as a 30-minute slot,
\* overlaps no reservation of that provider whose status is not cancelled.
C11_AvailableSlotsOverlapNothing ==
  pure.op = "getAvailableSlots" =>
    \A i \in 1..Len(pure.result), k \in 1..Len(pure.existing) :
      (pure.existing[k].doctorId = pure.doctorId /\ pure.existing[k].status # "cancelled")
        => ~StrictOverlap(pure.result[i], SlotDuration,
                          pure.existing[k].dateTime, pure.existing[k].duration)

\* slots were returned although a future instant of the provider's windows
\* is held by a reservation that is not cancelled
C11_Witness ==
  /\ pure.op = "getAvailableSlots"
  /\ ~pure.failed
  /\ Len(pure.result) > 0
  /\ \E k \in 1..Len(pure.existing) :
       /\ pure.existing[k].status = "scheduled"
       /\ pure.existing[k].doctorId = pure.doctorId
       /\ pure.existing[k].dateTime > pure.at
       /\ \A i \in 1..Len(pure.result) : pure.result[i] # pure.existing[k].dateTime

\* the instants the expansion of a call walks through, before any filtering
CandidateInstants(call) ==
  LET found == FindDoctor(call.doctors, call.doctorId)
      Day(k) == DateOnly(call.at) + (k - 1) * MinutesPerDay
      Windows(k) == DaySlots(found[1].schedule, ToLowerCase(getDayName(Day(k))))
  IN IF found = <<>> THEN {}
     ELSE UNION { UNION { { generateSlotsFromTimeSlot(Day(k), Windows(k)[i])[n] :
                              n \in 1..Len(generateSlotsFromTimeSlot(Day(k), Windows(k)[i])) }
                          : i \in 1..Len(Windows(k)) }
                  : k \in 1..call.daysAhead }

\* two consecutive calls for the same provider and horizon with the same
\* reservations and providers in the store
SameQueryNothingChanged ==
  /\ pure.op = "getAvailableSlots"
  /\ pure.previous.op = "getAvailableSlots"
  /\ pure.previous.doctorId = pure.doctorId
  /\ pure.previous.daysAhead = pure.daysAhead
  /\ pure.previous.existing = pure.existing
  /\ pure.previous.doctors = pure.doctors

HoldsEntry(entries, id) == \E k \in 1..Len(entries) : entries[k].bookingId = id

\* C12: once a booking call has returned, on any path, neither the pending
\* registry nor the optimistic-state map holds an entry of that attempt, and
\* once every call has returned both maps are empty.
C12_ReturnedCallLeavesNoEntry ==
  /\ \A id \in CallIds :
       Returned(id) => /\ ~HoldsEntry(pendingBookings, id)
                       /\ ~HoldsEntry(optimisticStates, id)
  /\ (\A id \in CallIds : calls[id].pc \in {"idle", "done"})
       => (pendingBookings = <<>> /\ optimisticStates = <<>>)

\* both calls have returned, one booked and one turned down after it had
\* taken an optimistic snapshot
C12_Witness ==
  /\ \A id \in CallIds : Returned(id)
  /\ \E id \in CallIds : Succeeded(id)
  /\ \E id \in CallIds : Failed(id) /\ calls[id].optimisticState
  /\ pendingBookings = <<>>
  /\ optimisticStates = <<>>

\* C13 (as claimed): a payload that saveAppointment rejects as invalid is
\* surfaced at once: one persist attempt, no backoff delay, and an error of
\* the validation kind.  With no persistence failure raised, the catch block
\* of the loop is entered only by that rejection.
C13_ValidationErrorSurfacedWithoutRetry ==
  \A id \in CallIds :
    (/\ failures = 0
     /\ calls[id].lastError.message = "Failed to save appointment"
     /\ ~AppointmentValid(calls[id].appointmentData))
    => /\ calls[id].pc # "delay"
       /\ calls[id].attempt = 0
       /\ calls[id].lastError.type = "VALIDATION_ERROR"

\* C20 (as claimed): when a call reaches simultaneous-attempt detection, the
\* attempts reported are exactly the registry entries other than its own
\* that overlap its interval for the same provider, whatever their requester.
C20_DetectionSkipsOnlyOwnEntry ==
  \A id \in CallIds :
    (/\ calls[id].pc = "check"
     /\ Len(findConflictingAppointments(calls[id].appointmentData, appointments)) > 0)
    => LET Others(entry) ==
             /\ entry.bookingId # id
             /\ hasTimeConflict(calls[id].appointmentData, entry.appointmentData)
       IN detectSimultaneousBookings(pendingBookings, calls[id].appointmentData,
                                     calls[id].userId)
            = SelectSeq(pendingBookings, Others)

\* ------------------------------------------------------------------------
\* Properties of arbitration, suggestion counts and order, and overlap
\* ------------------------------------------------------------------------
\* C14: for two or more attempts with pairwise distinct timestamps,
\* resolveBookingConflict names the attempt of smallest timestamp as winner
\* and its conflicts list holds exactly the other attempts, in whatever
\* order the attempts were passed.
C14_EarliestAttemptWins ==
  (/\ pure.op = "resolveBookingConflict"
   /\ Len(pure.attempts) >= 2
   /\ \A i, j \in 1..Len(pure.attempts) :
        i # j => pure.attempts[i].timestamp # pure.attempts[j].timestamp)
  => /\ \A i \in 1..Len(pure.attempts) :
          pure.result.winner.timestamp <= pure.attempts[i].timestamp
     /\ \E i \in 1..Len(pure.attempts) : pure.result.winner = pure.attempts[i]
     /\ Len(pure.result.conflicts) = Len(pure.attempts) - 1
     /\ { pure.result.conflicts[k] : k \in 1..Len(pure.result.conflicts) }
          = { pure.attempts[i] : i \in 1..Len(pure.attempts) } \ {pure.result.winner}

\* three attempts with distinct timestamps were passed latest first
C14_Witness ==
  /\ pure.op = "resolveBookingConflict"
  /\ Len(pure.attempts) >= 3
  /\ \A i, j \in 1..Len(pure.attempts) :
       i < j => pure.attempts[i].timestamp > pure.attempts[j].timestamp
  /\ pure.result.winner = pure.attempts[Len(pure.attempts)]

\* C15 (as claimed): suggestAlternativeSlots never returns more timestamps
\* than the maximum count it is given, for every maximum count >= 0.
C15_NeverMoreThanMaximum ==
  pure.op = "suggestAlternativeSlots" => Len(pure.result) <= pure.maxSuggestions

\* C16 (as claimed): the list suggestAlternativeSlots returns is in ascending
\* chronological order, in whatever order the day's windows are stored.
C16_SuggestionsAscending ==
  pure.op = "suggestAlternativeSlots" =>
    \A i, j \in 1..Len(pure.result) : i < j => pure.result[i] < pure.result[j]

\* C18: timeRangesOverlap, hasTimeConflict and the overlap test of
\* findConflictingAppointments give the same answer for (A, B) and (B, A),
\* and answer "no overlap" when one interval ends exactly where the other
\* starts.
C18_OverlapSymmetricTouchingDisjoint ==
  pure.op = "overlap" =>
    /\ pure.forward = pure.backward
    /\ (\/ pure.a.dateTime + pure.a.duration = pure.b.dateTime
        \/ pure.b.dateTime + pure.b.duration = pure.a.dateTime)
       => /\ ~pure.forward.timeRangesOverlap
          /\ ~pure.forward.hasTimeConflict
          /\ ~pure.forward.serviceHasTimeConflict
          /\ ~pure.forward.findConflictingAppointments

\* two intervals of one provider that touch were compared, and two that
\* share time were found to overlap by the same tests
C18_Witness ==
  /\ pure.op = "overlap"
  /\ pure.a.doctorId = pure.b.doctorId
  /\ pure.a.dateTime + pure.a.duration = pure.b.dateTime
  /\ ~pure.forward.timeRangesOverlap
  /\ ~pure.backward.hasTimeConflict

\* ------------------------------------------------------------------------
\* Properties of cancellation
\* ------------------------------------------------------------------------
\* C17 (as claimed): cancelAppointment on a stored reservation whose status
\* is scheduled, be its dateTime in the future or in the past, sets that
\* reservation's status to cancelled and changes nothing else in the store:
\* the same number of reservations, every other reservation as it was.
C17_CancelOnlyMarksCancelled ==
  [][\A appointmentId \in 1..Len(appointments) :
       (/\ cancelAppointment(appointmentId)
        /\ \E k \in 1..Len(stateAppointments) :
             /\ stateAppointments[k].id = appointmentId
             /\ stateAppointments[k].status = "scheduled"
        /\ \E k \in 1..Len(appointments) :
             /\ appointments[k].id = appointmentId
             /\ appointments[k].status = "scheduled")
       => /\ Len(appointments') = Len(appointments)
          /\ \A k \in 1..Len(appointments) :
               appointments'[k] = IF appointments[k].id = appointmentId
                                  THEN [appointments[k] EXCEPT !.status = "cancelled"]
                                  ELSE appointments[k]]_vars

\* ------------------------------------------------------------------------
\* Properties of arbitration between two attempts
\* ------------------------------------------------------------------------
\* C21 (as claimed): for two competing attempts for the same slot, identical
\* submission timestamps included, the arbitration run for each of them
\* names the same winner.
C21_BothArbitrationsNameSameWinner ==
  pure.op = "arbitrateBoth" => pure.forA.winner = pure.forB.winner

\* ------------------------------------------------------------------------
\* Properties of rescheduling
\* ------------------------------------------------------------------------
\* a reservation of the list other than appointmentId, not cancelled, of the
\* same provider, overlaps [newDateTime, newDateTime + duration)
OtherOverlaps(list, appointmentId, doctorId, newDateTime, duration) ==
  \E k \in 1..Len(list) :
    /\ list[k].id # appointmentId
    /\ list[k].status # "cancelled"
    /\ list[k].doctorId = doctorId
    /\ StrictOverlap(newDateTime, duration, list[k].dateTime, list[k].duration)

\* C22 (as claimed): rescheduling a scheduled reservation to a time, not in
\* the past, whose interval overlaps its own current interval and no other
\* non-cancelled reservation of the provider succeeds: the stored
\* reservation takes the new dateTime.
C22_RescheduleOntoOwnIntervalSucceeds ==
  [][\A appointmentId \in 1..Len(appointments), newDateTime \in RescheduleTargets :
       (/\ rescheduleAppointment(appointmentId, newDateTime)
        /\ ~(newDateTime < now)
        /\ \E k \in 1..Len(appointments) :
             /\ appointments[k].id = appointmentId
             /\ appointments[k].status = "scheduled"
             /\ FindAppointment(stateAppointments, appointmentId) = <<appointments[k]>>
             /\ StrictOverlap(newDateTime, appointments[k].duration,
                              appointments[k].dateTime, appointments[k].duration)
             /\ ~OtherOverlaps(appointments, appointmentId, appointments[k].doctorId,
                               newDateTime, appointments[k].duration)
             /\ ~OtherOverlaps(stateAppointments, appointmentId, appointments[k].doctorId,
                               newDateTime, appointments[k].duration))
       => \E k \in 1..Len(appointments) :
            /\ appointments[k].id = appointmentId
            /\ appointments' = [appointments EXCEPT ![k].dateTime = newDateTime]]_vars

\* ------------------------------------------------------------------------
\* Properties of one pass of the retry loop
\* ------------------------------------------------------------------------
\* what the conflict check of call id reads and computes in the current state
DirectConflicts(id) == findConflictingAppointments(calls[id].appointmentData, appointments)
PendingCompetitors(id) ==
  detectSimultaneousBookings(pendingBookings, calls[id].appointmentData, calls[id].userId)
WinsArbitration(id) ==
  /\ PendingCompetitors(id) # <<>>
  /\ resolveSimultaneousBookings(BookingAttemptOf(id), PendingCompetitors(id)).winner.userId
       = calls[id].userId

\* C23: an attempt that wins the arbitration while an overlapping committed
\* reservation is in the store goes on to the authoritative check without
\* persisting, and the authoritative check made while such a reservation is
\* in the store never lets the attempt through to the save: nothing is
\* persisted and the pass ends in a retry or in the failed return.
C23_WinnerWithCommittedConflictNotBooked ==
  [][\A id \in CallIds :
       /\ (ConflictCheck(id) /\ DirectConflicts(id) # <<>> /\ WinsArbitration(id))
            => (calls'[id].pc = "avail" /\ appointments' = appointments)
       /\ (AvailabilityCheck(id) /\ DirectConflicts(id) # <<>>)
            => (/\ calls'[id].pc \in {"delay", "alternatives"}
                /\ ~calls'[id].result.returned
                /\ appointments' = appointments)]_vars

\* a call has won the arbitration against the pending attempt whose
\* reservation is already in the store, and stands before the authoritative
\* check with nothing stored since its conflict check
C23_Witness ==
  \E id \in CallIds :
    /\ calls[id].pc = "avail"
    /\ calls[id].attempt = 0
    /\ calls[id].firstSnapshot = Len(appointments)
    /\ DirectConflicts(id) # <<>>
    /\ WinsArbitration(id)

\* C24: when the conflict check finds a direct conflict with a committed
\* reservation and no other pending attempt overlaps the request, the attempt
\* is rejected in that pass: it leaves the loop with a booking-conflict
\* error, takes no delay, persists nothing, and makes no further check.
C24_CommittedConflictRejectedAtOnce ==
  [][\A id \in CallIds :
       /\ (/\ ConflictCheck(id)
           /\ DirectConflicts(id) # <<>>
           /\ ~ \E k \in 1..Len(pendingBookings) :
                  /\ pendingBookings[k].bookingId # id
                  /\ hasTimeConflict(calls[id].appointmentData,
                                     pendingBookings[k].appointmentData))
          => /\ calls'[id].pc = "alternatives"
             /\ calls'[id].attempt = calls[id].attempt
             /\ calls'[id].lastError.type = "BOOKING_CONFLICT"
             /\ appointments' = appointments
       /\ calls[id].pc = "alternatives" => calls'[id].pc \in {"alternatives", "done"}]_vars

\* a call was rejected on its first pass by a reservation committed by a
\* call that has already returned
C24_Witness ==
  \E id \in CallIds :
    /\ calls[id].pc = "alternatives"
    /\ calls[id].attempt = 0
    /\ calls[id].lastError = ConflictError("Time slot is no longer available")
    /\ DirectConflicts(id) # <<>>
    /\ pendingBookings = <<>>

\* the passes of the retry loop call id has started, the current one included
TriesStarted(id) == calls[id].attempt + 1

\* C25 (as claimed): a booking call makes no more conflict-check tries than
\* its configured maximum attempt count (maxRetryAttempts), whatever the
\* store answers.  (That every call ends follows from the loop counter, which
\* only grows and is bounded; it is the count that is checked here.)
C25_TriesWithinMaxRetryAttempts ==
  \A id \in CallIds :
    calls[id].pc \in {"check", "avail", "save", "saved", "delay", "alternatives", "done"}
      => TriesStarted(id) <= calls[id].maxRetryAttempts

\* how far a call has got: passes completed first, then the place in the pass
PcRank(pc) ==
  CASE pc = "idle" -> 0
    [] pc = "optimistic" -> 1
    [] pc = "check" -> 2
    [] pc = "avail" -> 3
    [] pc = "save" -> 4
    [] pc = "saved" -> 5
    [] pc = "delay" -> 6
    [] pc = "alternatives" -> 7
    [] pc = "done" -> 8
Progress(call) == call.attempt * 10 + PcRank(call.pc)

\* C25 (amended): a booking call makes at most maxRetryAttempts + 1
\* conflict-check tries, the first one and maxRetryAttempts retries, whatever
\* the store answers, and it always terminates: every step of the call
\* moves it strictly forward through a bounded progress measure.
C25_TriesBoundedAndCallAdvances ==
  [][\A id \in CallIds :
       /\ calls'[id].attempt + 1 <= calls'[id].maxRetryAttempts + 1
       /\ calls'[id] # calls[id] => Progress(calls'[id]) > Progress(calls[id])]_vars

\* a call with the default of 3 retries has failed after its fourth try
C25_Witness ==
  \E id \in CallIds :
    /\ Failed(id)
    /\ calls[id].maxRetryAttempts = DefaultMaxRetryAttempts
    /\ TriesStarted(id) = DefaultMaxRetryAttempts + 1

\* ------------------------------------------------------------------------
\* Properties of slot generation and of schedules
\* ------------------------------------------------------------------------
\* C26 (as claimed): every instant t the slot generators produce for a window
\* satisfies window.start <= t and t + 30 <= window.end, also for windows
\* whose length is not a multiple of 30 minutes.
C26_EverySlotFitsInWindow ==
  pure.op = "generateSlots" =>
    LET start == ParseTime(pure.window.startTime)
        end == ParseTime(pure.window.endTime)
        Fits(t) == start <= t /\ t + SlotDuration <= end
    IN /\ \A k \in 1..Len(pure.fromTimeSlot) : Fits(pure.fromTimeSlot[k])
       /\ \A k \in 1..Len(pure.timeSlots) : Fits(ParseTime(pure.timeSlots[k]))
       /\ \A k \in 1..Len(pure.individualSlots) : Fits(ParseTime(pure.individualSlots[k]))

\* C27 (as claimed): a weekly schedule with a window shorter than 30 minutes
\* is reported invalid by ScheduleService.validateSchedule, as it is by
\* ValidationUtils.validateDoctorSchedule, and the save flow turns it down.
C27_ShortWindowIsInvalid ==
  (/\ pure.op = "validateSchedule"
   /\ \E day \in DOMAIN pure.schedule : \E i \in 1..Len(pure.schedule[day]) :
        ParseTime(pure.schedule[day][i].endTime) - ParseTime(pure.schedule[day][i].startTime)
          < MinSlotMinutes)
  => /\ ~pure.result.isValid
     /\ pure.result.isValid = pure.utils.isValid
     /\ ~pure.saveAccepts

\* C28 (as claimed): every schedule the system constructs has lowercase
\* weekday names as keys, so that the lowercase lookups find its Monday
\* window 09:00-17:00: Monday 09:00 is within the schedule, alternatives are
\* suggested, a reservation at Monday 09:00 is compatible with it, and
\* available slots are listed.
C28_ConstructedKeysLowercase ==
  pure.op = "scheduleLookups" =>
    /\ DOMAIN pure.schedule \subseteq { WeekdayNames[n] : n \in 1..7 }
    /\ pure.isWithinDoctorSchedule
    /\ pure.suggestAlternativeSlots # <<>>
    /\ pure.validateScheduleUpdate.isValid
    /\ pure.getAvailableSlots # <<>>

\* C29 (as claimed): getAlternativeSlotsWithConflictCheck, a query for
\* alternative times, leaves the stored reservations as they were, whether
\* the slot it is asked about is free or taken.
C29_AlternativesQueryLeavesStore ==
  [][\A data \in BookingPayloads, userId \in UserIds :
       getAlternativeSlotsWithConflictCheck(data, userId)
         => appointments' = appointments]_vars

\* C30 (as claimed): for any sequence of setData and removeData calls on one
\* key, batched and immediate mixed, once every scheduled flush has completed
\* and AsyncStorage has performed what was issued, the text persisted for the
\* key is the one given by the last call: the last value's text after a set,
\* nothing after a remove.
StorageSettled == batchQueue = <<>> /\ ~batchTimeout /\ nativeQueue = <<>>

C30_LastCallIsPersisted ==
  (storageCalls.count > 0 /\ StorageSettled)
  => persisted = IF storageCalls.last.type = "set"
                 THEN Stringify(storageCalls.last.value)
                 ELSE Null

====
